---- MODULE Spec2Model ----
(***************************************************************************)
(* State-machine model of the particle simulation.                         *)
(*                                                                         *)
(*   Simulation   (simulation.js) driving PhysicsEngine (part_002, second  *)
(*                class) and Particle (particle.js);                       *)
(*   Simulation3D (part_005): its frame loop and the atom it builds.       *)
(*                                                                         *)
(* JavaScript Numbers are modelled in fixed point: lengths, velocities,    *)
(* accelerations and forces are integers counting hundredths of a unit     *)
(* (Fix(1) = 100), times are integer milliseconds, and every division      *)
(* truncates toward zero, which keeps x / y odd in x as IEEE division is.  *)
(***************************************************************************)
EXTENDS Integers, Sequences, FiniteSets, TLC

VARIABLES
    app,              \* which page is loaded: "Simulation" or "Simulation3D"
    width, height,    \* canvas.width / canvas.height = physics.width / height
    now,              \* performance.now(), in ms
    isRunning,        \* this.isRunning
    lastTime,         \* this.lastTime, in ms
    particles,        \* this.particles: sequence of particle records
    coulombConstant,  \* this.physics.coulombConstant
    frameTimes,       \* this.frameTimes: per-tick dt, in ms
    fps,              \* this.fps
    pending,          \* frame callbacks registered with requestAnimationFrame
    frameCount,       \* Simulation3D.frameCount
    fpsUpdateTime,    \* Simulation3D.fpsUpdateTime, in ms
    quarkAngle,       \* Simulation3D: advance of every quark.angle, in units of 0.05 rad
    frameNo,          \* animation frames the browser has run so far
    initCalls,        \* calls of initializeParticles so far
    lastCount,        \* the count argument of the latest initializeParticles call
    calls,            \* calls made on a PhysicsEngine driven directly
    scene,            \* Simulation3D: atomicNumber, nucleus and the lists nucleons,
                      \* quarks, gluons, electrons and orbitalMeshes
    resets            \* calls of Simulation3D.reset so far

vars == <<app, width, height, now, isRunning, lastTime, particles,
          coulombConstant, frameTimes, fps, pending, frameCount,
          fpsUpdateTime, quarkAngle, frameNo, initCalls,
                   lastCount, calls, scene, resets>>

(***************************************************************************)
(* Bounds of the model.                                                    *)
(***************************************************************************)
MaxPending == 2
MaxFrames == 1
MaxInits == 2
MaxCalls == 4
MaxResets == 1

(***************************************************************************)
(* Program constants.                                                      *)
(***************************************************************************)
Radius == 8
Mass == 1
DefaultCoulombConstant == 5000
MinDistance == 20
MaxForce == 100
DampingPermille == 995
MaxDtMs == 100
FrameTimesMaxLength == 60
Padding == 50
TypedDampingPermille == 990
OrbitalSpeedMilli == 20
QuarkSpeedMilli == 50
TypedK == 500
DefaultAtomicNumber == 6
QuarksPerNucleon == 3

(***************************************************************************)
(* Inputs.                                                                 *)
(***************************************************************************)
\* canvas.offsetWidth = canvas.offsetHeight read by the constructor
CanvasSizes == {40, 140}
\* gaps between successive animation frames, in ms (16: 60 Hz; 1000: the tab
\* was in the background)
FrameGaps == {16, 1000}
\* values of the force-strength slider
CoulombValues == {60000}
\* outcomes of the five Math.random() calls made for one particle, in
\* thousandths: <<x, y, charge, vx, vy>>
DrawA == <<0, 0, 0, 0, 500>>
DrawB == <<25, 0, 400, 950, 500>>
DrawC == <<500, 0, 399, 500, 0>>
DrawD == <<500, 500, 800, 0, 950>>
DrawE == <<0, 500, 799, 950, 950>>
DrawF == <<250, 500, 0, 500, 500>>
DrawG == <<750, 500, 400, 500, 500>>
\* dt of a direct particle.update(dt) call, in ms
EngineDts == {16, 100}
\* count arguments of initializeParticles
Counts == -1..3
\* outcomes of the Math.random() stream over one initializeParticles(count)
\* call, count = Len
RandomStreams == { <<>>, <<DrawA, DrawB>>, <<DrawF, DrawG>>,
                   <<DrawA, DrawC, DrawE>>, <<DrawC, DrawD, DrawE>> }
\* the argument of Simulation3D.setElement
AtomicNumbers == 1..112

\* outcomes of the Math.random() calls behind the particles handed to an
\* engine driven directly
EngineStreams == RandomStreams \cup { <<DrawA>>, <<DrawA, DrawA>>, <<DrawB, DrawE>>,
                                     <<DrawA, DrawB, DrawD>>,
                                      <<DrawA, DrawB, DrawC>> }

(***************************************************************************)
(* Number arithmetic.                                                      *)
(***************************************************************************)
Fix(n) == n * 100

Abs(a) == IF a < 0 THEN -a ELSE a

Sign(a) == IF a > 0 THEN 1 ELSE IF a < 0 THEN -1 ELSE 0

Min(a, b) == IF a < b THEN a ELSE b

Max(a, b) == IF a > b THEN a ELSE b

\* a / b for b > 0, truncated toward zero
TDiv(a, b) == IF a >= 0 THEN a \div b ELSE -((-a) \div b)

\* Math.round(a / b) for a >= 0, b > 0
RoundDiv(a, b) == (2 * a + b) \div (2 * b)

RECURSIVE SqrtSearch(_, _, _)
SqrtSearch(n, lo, hi) ==
    IF lo >= hi THEN lo
    ELSE LET mid == (lo + hi + 1) \div 2
         IN  IF mid * mid <= n THEN SqrtSearch(n, mid, hi)
                               ELSE SqrtSearch(n, lo, mid - 1)

\* Math.sqrt(n), rounded down
Sqrt(n) == SqrtSearch(n, 0, IF n < 1048576 THEN 1023 ELSE 46340)

\* Math.sqrt(dx * dx + dy * dy), rounded down: the search starts from the
\* bounds max(|dx|, |dy|) <= sqrt(dx^2 + dy^2) <= |dx| + |dy|
Hypot(dx, dy) ==
    SqrtSearch(dx * dx + dy * dy, Max(Abs(dx), Abs(dy)), Abs(dx) + Abs(dy))

RECURSIVE SumSeq(_)
SumSeq(s) == IF s = <<>> THEN 0 ELSE Head(s) + SumSeq(Tail(s))

(***************************************************************************)
(* Particle (particle.js).                                                 *)
(***************************************************************************)
\* new Particle(x, y, charge) with the two velocity draws rvx, rvy
NewParticle(x, y, charge, rvx, rvy) ==
    [x |-> x, y |-> y,
     vx |-> TDiv((rvx - 500) * 2 * Fix(1), 1000),
     vy |-> TDiv((rvy - 500) * 2 * Fix(1), 1000),
     ax |-> 0, ay |-> 0, charge |-> charge]

\* update that forgets to clear the accumulators
UpdateKeepsAcceleration(p, dt) ==
    LET vx1 == p.vx + TDiv(p.ax * dt, 1000)
        vy1 == p.vy + TDiv(p.ay * dt, 1000)
    IN  [p EXCEPT !.vx = vx1, !.vy = vy1,
                  !.x = p.x + TDiv(vx1 * dt, 1000),
                  !.y = p.y + TDiv(vy1 * dt, 1000)]

\* Particle.update(dt), dt in ms
Update(p, dt) ==
    LET vx1 == p.vx + TDiv(p.ax * dt, 1000)
        vy1 == p.vy + TDiv(p.ay * dt, 1000)
    IN  [p EXCEPT !.vx = vx1, !.vy = vy1,
                  !.x = p.x + TDiv(vx1 * dt, 1000),
                  !.y = p.y + TDiv(vy1 * dt, 1000),
                  !.ax = 0, !.ay = 0]

\* applyForce that assigns the acceleration instead of adding to it
ApplyForceOverwrites(p, fx, fy) ==
    [p EXCEPT !.ax = TDiv(fx, Mass), !.ay = TDiv(fy, Mass)]

\* Particle.applyForce(fx, fy)
ApplyForce(p, fx, fy) ==
    [p EXCEPT !.ax = @ + TDiv(fx, Mass), !.ay = @ + TDiv(fy, Mass)]

(***************************************************************************)
(* PhysicsEngine (part_002, the engine simulation.js constructs).          *)
(***************************************************************************)
\* the distance applyCoulombForce divides by
ClampedDistance(p1, p2) ==
    LET dx == p2.x - p1.x
        dy == p2.y - p1.y
        distance == Hypot(dx, dy)
    IN  IF distance < Fix(MinDistance) THEN Fix(MinDistance) ELSE distance

\* forceMagnitude without the maxForce cap
ForceMagnitudeUncapped(q1, q2, distance, k) ==
    TDiv(TDiv(k * q1 * q2 * Fix(1) * Fix(1), distance) * Fix(1), distance)

\* forceMagnitude of applyCoulombForce after the maxForce cap, for charges
\* q1, q2 at the clamped distance
ForceMagnitude(q1, q2, distance, k) ==
    LET raw == TDiv(TDiv(k * q1 * q2 * Fix(1) * Fix(1), distance) * Fix(1), distance)
    IN  IF Abs(raw) > Fix(MaxForce) THEN Fix(MaxForce) * Sign(raw) ELSE raw

\* <<fx, fy>> of applyCoulombForce: the force applied to p1; p2 gets its negation
PairForce(p1, p2, k) ==
    LET dx == p2.x - p1.x
        dy == p2.y - p1.y
        distance == ClampedDistance(p1, p2)
        forceMagnitude == ForceMagnitude(p1.charge, p2.charge, distance, k)
        unitX == TDiv(dx * 1000, distance)
        unitY == TDiv(dy * 1000, distance)
    IN  << TDiv(forceMagnitude * unitX, 1000), TDiv(forceMagnitude * unitY, 1000) >>

\* inner loop body that gives both particles the same force
ApplyPairSameSign(ps, i, j, k) ==
    LET f == PairForce(ps[i], ps[j], k)
    IN  [ps EXCEPT ![i] = ApplyForce(@, f[1], f[2]),
                   ![j] = ApplyForce(@, f[1], f[2])]

\* the body of the inner loop of applyCoulombForce for the pair (i, j)
ApplyPair(ps, i, j, k) ==
    LET f == PairForce(ps[i], ps[j], k)
    IN  [ps EXCEPT ![i] = ApplyForce(@, f[1], f[2]),
                   ![j] = ApplyForce(@, -f[1], -f[2])]

RECURSIVE ForceLoop(_, _, _, _)
ForceLoop(ps, i, j, k) ==
    IF i > Len(ps) THEN ps
    ELSE IF j > Len(ps) THEN ForceLoop(ps, i + 1, i + 2, k)
    ELSE ForceLoop(ApplyPair(ps, i, j, k), i, j + 1, k)

\* PhysicsEngine.applyCoulombForce(particles)
ApplyCoulombForce(ps, k) == ForceLoop(ps, 1, 2, k)

\* the term with the cap of the force pass applied to it
PairPotentialCapped(p1, p2, k) ==
    LET pe == TDiv(k * p1.charge * p2.charge * Fix(1) * Fix(1), ClampedDistance(p1, p2))
    IN  Sign(pe) * Min(Abs(pe), Fix(MaxForce))

\* the term of calculatePotentialEnergy for the pair (p1, p2)
PairPotential(p1, p2, k) ==
    TDiv(k * p1.charge * p2.charge * Fix(1) * Fix(1), ClampedDistance(p1, p2))

RECURSIVE PotentialLoop(_, _, _, _)
PotentialLoop(ps, i, j, k) ==
    IF i > Len(ps) THEN 0
    ELSE IF j > Len(ps) THEN PotentialLoop(ps, i + 1, i + 2, k)
    ELSE PairPotential(ps[i], ps[j], k) + PotentialLoop(ps, i, j + 1, k)

\* PhysicsEngine.calculatePotentialEnergy(particles), in hundredths
CalculatePotentialEnergy(ps, k) == PotentialLoop(ps, 1, 2, k)

\* Particle.getKineticEnergy(), in hundredths squared
GetKineticEnergy(p) == (Mass * (p.vx * p.vx + p.vy * p.vy)) \div 2

\* PhysicsEngine.calculateKineticEnergy(particles)
CalculateKineticEnergy(ps) ==
    SumSeq([i \in 1..Len(ps) |-> GetKineticEnergy(ps[i])])

\* PhysicsEngine.calculateTotalEnergy(particles), in hundredths squared
CalculateTotalEnergy(ps, k) ==
    LET ke == CalculateKineticEnergy(ps)
        pe == CalculatePotentialEnergy(ps, k)
    IN  ke + Fix(1) * pe

\* vx *= damping
Damp(v) == TDiv(v * DampingPermille, 1000)

\* the left check with <= for <
LeftWallInclusive(p) ==
    IF p.x - Fix(Radius) <= 0
    THEN [p EXCEPT !.x = Fix(Radius), !.vx = Damp(-p.vx), !.vy = Damp(p.vy)]
    ELSE p

\* the four wall checks of handleBoundaries, in source order
LeftWall(p) ==
    IF p.x - Fix(Radius) < 0
    THEN [p EXCEPT !.x = Fix(Radius), !.vx = Damp(-p.vx), !.vy = Damp(p.vy)]
    ELSE p

\* the right check without the inversion of vx
RightWallNoFlip(p, w) ==
    IF p.x + Fix(Radius) > Fix(w)
    THEN [p EXCEPT !.x = Fix(w) - Fix(Radius), !.vx = Damp(p.vx), !.vy = Damp(p.vy)]
    ELSE p

RightWall(p, w) ==
    IF p.x + Fix(Radius) > Fix(w)
    THEN [p EXCEPT !.x = Fix(w) - Fix(Radius), !.vx = Damp(-p.vx), !.vy = Damp(p.vy)]
    ELSE p

TopWall(p) ==
    IF p.y - Fix(Radius) < 0
    THEN [p EXCEPT !.y = Fix(Radius), !.vy = Damp(-p.vy), !.vx = Damp(p.vx)]
    ELSE p

BottomWall(p, h) ==
    IF p.y + Fix(Radius) > Fix(h)
    THEN [p EXCEPT !.y = Fix(h) - Fix(Radius), !.vy = Damp(-p.vy), !.vx = Damp(p.vx)]
    ELSE p

\* PhysicsEngine.handleBoundaries(particles)
HandleBoundaries(ps, w, h) ==
    [i \in 1..Len(ps) |-> BottomWall(TopWall(RightWall(LeftWall(ps[i]), w)), h)]

(***************************************************************************)
(* Simulation (simulation.js).                                             *)
(***************************************************************************)
\* dt passed on without the cap
ClampDtMissing(dt) == dt

\* const clampedDt = Math.min(dt, 0.1)
ClampDt(dt) == Min(dt, MaxDtMs)

\* fps from the latest sample alone
ComputeFpsOfLast(ft) ==
    RoundDiv(1000000, Max(ft[Len(ft)] * 1000, 1000))

\* this.fps after frameTimes has been updated
ComputeFps(ft) ==
    LET avgMicro == TDiv(SumSeq(ft) * 1000, Len(ft))
    IN  RoundDiv(1000000, Max(avgMicro, 1000))

\* the speed taken as the sum of the two components
SpeedByComponents(p) == Abs(p.vx) + Abs(p.vy)

\* Math.sqrt(particle.vx * particle.vx + particle.vy * particle.vy)
Speed(p) == Hypot(p.vx, p.vy)

\* Simulation.getStats() on the particles ps, an engine with constant k and
\* this.fps = f
GetStats(ps, k, f) ==
    LET totalEnergy == CalculateTotalEnergy(ps, k)
        totalVelocity == SumSeq([i \in 1..Len(ps) |-> Speed(ps[i])])
        averageVelocity == TDiv(totalVelocity, Max(Len(ps), 1))
    IN  [particleCount |-> Len(ps), totalEnergy |-> totalEnergy,
         averageVelocity |-> averageVelocity, fps |-> f]

\* the object's fields as a record, for the operators below
SimState == [isRunning |-> isRunning, lastTime |-> lastTime,
             particles |-> particles, frameTimes |-> frameTimes,
             fps |-> fps, pending |-> pending]

\* a tick that integrates the particles before the force pass
TickUpdateFirst(st, currentTime, k, w, h) ==
    LET dt == currentTime - st.lastTime
        clampedDt == ClampDt(dt)
        moved == [i \in 1..Len(st.particles) |-> Update(st.particles[i], clampedDt)]
        forced == ApplyCoulombForce(moved, k)
        bounded == HandleBoundaries(forced, w, h)
        pushed == Append(st.frameTimes, dt)
        ft == IF Len(pushed) > FrameTimesMaxLength THEN Tail(pushed) ELSE pushed
    IN  [st EXCEPT !.lastTime = currentTime,
                   !.particles = bounded,
                   !.frameTimes = ft,
                   !.fps = ComputeFps(ft),
                   !.pending = @ + 1]

\* the body of Simulation.animate(currentTime) below its isRunning check
Tick(st, currentTime, k, w, h) ==
    LET dt == currentTime - st.lastTime
        clampedDt == ClampDt(dt)
        forced == ApplyCoulombForce(st.particles, k)
        moved == [i \in 1..Len(forced) |-> Update(forced[i], clampedDt)]
        bounded == HandleBoundaries(moved, w, h)
        pushed == Append(st.frameTimes, dt)
        ft == IF Len(pushed) > FrameTimesMaxLength THEN Tail(pushed) ELSE pushed
    IN  [st EXCEPT !.lastTime = currentTime,
                   !.particles = bounded,
                   !.frameTimes = ft,
                   !.fps = ComputeFps(ft),
                   !.pending = @ + 1]

\* animate without its first line
AnimateUnchecked(st, currentTime, k, w, h) == Tick(st, currentTime, k, w, h)

\* Simulation.animate(currentTime) on the fields st
Animate(st, currentTime, k, w, h) ==
    IF ~st.isRunning THEN st ELSE Tick(st, currentTime, k, w, h)

\* the browser runs the n callbacks registered for this frame, all with the
\* frame's timestamp
RECURSIVE RunCallbacks(_, _, _, _, _, _)
RunCallbacks(st, n, time, k, w, h) ==
    IF n = 0 THEN st
    ELSE RunCallbacks(Animate(st, time, k, w, h), n - 1, time, k, w, h)

\* one particle of initializeParticles on a canvas w by h
DrawParticle(r, w, h) ==
    LET x == Fix(Padding) + TDiv(r[1] * (Fix(w) - Fix(2 * Padding)), 1000)
        y == Fix(Padding) + TDiv(r[2] * (Fix(h) - Fix(2 * Padding)), 1000)
        charge == IF r[3] < 400 THEN 1 ELSE IF r[3] < 800 THEN -1 ELSE 0
    IN  NewParticle(x, y, charge, r[4], r[5])

SetFields(st) ==
    /\ isRunning' = st.isRunning
    /\ lastTime' = st.lastTime
    /\ particles' = st.particles
    /\ frameTimes' = st.frameTimes
    /\ fps' = st.fps
    /\ pending' = st.pending

(***************************************************************************)
(* Simulation3D (part_005): the atom it builds.  A list of scene objects   *)
(* is kept as runs [parent |-> the nucleus group the entries hang from,    *)
(* count |-> how many], one run for each setupNucleus call.                *)
(***************************************************************************)
\* the orbital always taking a pair
OrbitalCountAlwaysTwo(remaining) == 2

\* Math.min(2, remaining)
OrbitalCount(remaining) == Min(2, remaining)

\* the orbitals of the subshell n, l, in the order they are filled
Subshell(n, l) ==
    LET types == IF l = 0 THEN <<"s">>
                 ELSE IF l = 1 THEN <<"px", "py", "pz">>
                 ELSE IF l = 2 THEN <<"dz2", "dxz", "dyz", "dx2-y2", "dxy">>
                 ELSE <<"f1", "f2", "f3", "f4", "f5", "f6", "f7">>
    IN  [i \in 1..Len(types) |-> [n |-> n, l |-> l, type |-> types[i]]]

\* the orbitals in the order of the blocks of getElectronConfiguration
FillingOrder ==
    Subshell(1, 0) \o Subshell(2, 0) \o Subshell(2, 1) \o Subshell(3, 0) \o
    Subshell(3, 1) \o Subshell(4, 0) \o Subshell(3, 2) \o Subshell(4, 1) \o
    Subshell(5, 0) \o Subshell(4, 2) \o Subshell(5, 1) \o Subshell(6, 0) \o
    Subshell(4, 3) \o Subshell(5, 2) \o Subshell(6, 1) \o Subshell(7, 0) \o
    Subshell(5, 3) \o Subshell(6, 2)

\* the blocks from orbital i on: each pushes an entry if remaining > 0
RECURSIVE FillOrbitals(_, _, _)
FillOrbitals(configs, remaining, i) ==
    IF i > Len(FillingOrder) THEN configs
    ELSE IF remaining > 0
    THEN LET count == OrbitalCount(remaining)
             o == FillingOrder[i]
         IN  FillOrbitals(Append(configs, [n |-> o.n, l |-> o.l, type |-> o.type,
                                           electrons |-> count]),
                          remaining - count, i + 1)
    ELSE FillOrbitals(configs, remaining, i + 1)

\* Simulation3D.getElectronConfiguration(electronCount)
GetElectronConfiguration(electronCount) == FillOrbitals(<<>>, electronCount, 1)

\* Math.round(this.atomicNumber * 1.2)
NeutronCount(z) == RoundDiv(12 * z, 10)

\* the gluons createGluonConnections pushes for one nucleon: one for each
\* pair i < j of its quarks
GluonsPerNucleon ==
    Cardinality({ ij \in (1..QuarksPerNucleon) \X (1..QuarksPerNucleon) : ij[1] < ij[2] })

\* Simulation3D.setupNucleus()
SetupNucleus(sc) ==
    LET group == sc.nucleus + 1
        count == sc.atomicNumber + NeutronCount(sc.atomicNumber)
    IN  [sc EXCEPT !.nucleus = group,
                   !.nucleons = Append(@, [parent |-> group, count |-> count]),
                   !.quarks = Append(@, [parent |-> group,
                                         count |-> QuarksPerNucleon * count]),
                   !.gluons = Append(@, [parent |-> group,
                                         count |-> GluonsPerNucleon * count])]

\* the electrons created for the orbital entries configs from entry i on
RECURSIVE ElectronsOf(_, _)
ElectronsOf(configs, i) ==
    IF i > Len(configs) THEN <<>>
    ELSE [e \in 1..configs[i].electrons |-> i] \o ElectronsOf(configs, i + 1)

\* Simulation3D.setupElectronOrbitals(): an orbital mesh for each entry and
\* an electron, tagged with the place of its orbital, for each of its electrons
SetupElectronOrbitals(sc) ==
    LET orbitalConfigs == GetElectronConfiguration(sc.atomicNumber)
    IN  [sc EXCEPT !.orbitalMeshes = @ \o orbitalConfigs,
                   !.electrons = @ \o ElectronsOf(orbitalConfigs, 1)]

\* the scene fields of a page without an atom
NoScene ==
    [atomicNumber |-> 0, nucleus |-> 0, nucleons |-> <<>>, quarks |-> <<>>,
     gluons |-> <<>>, electrons |-> <<>>, orbitalMeshes |-> <<>>]

\* the scene fields when new Simulation3D(container) returns
NewScene ==
    SetupElectronOrbitals(SetupNucleus([NoScene EXCEPT !.atomicNumber = DefaultAtomicNumber]))

\* Simulation3D.reset() on the scene fields sc
Reset(sc) ==
    SetupElectronOrbitals(SetupNucleus([sc EXCEPT !.electrons = <<>>,
                                                  !.orbitalMeshes = <<>>,
                                                  !.nucleons = <<>>,
                                                  !.quarks = <<>>]))

\* Simulation3D.setElement(atomicNumber) on the scene fields sc
SetElement(sc, atomicNumber) == Reset([sc EXCEPT !.atomicNumber = atomicNumber])

\* new Simulation(canvasId) / new Simulation3D(container)
Init ==
    /\ app \in {"Simulation", "Simulation3D"}
    /\ width \in CanvasSizes
    /\ height = width
    /\ now = 0
    /\ isRunning = FALSE
    /\ lastTime = 0
    /\ particles = <<>>
    /\ coulombConstant = DefaultCoulombConstant
    /\ frameTimes = <<>>
    /\ fps = 0
    /\ pending = 0
    /\ frameCount = 0
    /\ fpsUpdateTime = 0
    /\ quarkAngle = 0
    /\ frameNo = 0
    /\ initCalls = 0
    /\ lastCount = 0
    /\ calls = 0
    /\ scene = IF app = "Simulation3D" THEN NewScene ELSE NoScene
    /\ resets = 0

\* the collection initializeParticles builds over the collection ps, from
\* the Math.random() stream rs
NewParticlesKeepOld(ps, rs, w, h) ==
    ps \o [i \in 1..Len(rs) |-> DrawParticle(rs[i], w, h)]

NewParticles(ps, rs, w, h) ==
    [i \in 1..Len(rs) |-> DrawParticle(rs[i], w, h)]

\* Simulation.initializeParticles(count): the loop draws Max(count, 0)
\* particles
InitializeParticles ==
    /\ app = "Simulation"
    /\ initCalls < MaxInits
    /\ initCalls' = initCalls + 1
    /\ \E count \in Counts : \E rs \in RandomStreams :
         /\ Len(rs) = Max(count, 0)
         /\ lastCount' = count
         /\ particles' = NewParticles(particles, rs, width, height)
    /\ UNCHANGED <<app, width, height, now, isRunning, lastTime, coulombConstant,
                   frameTimes, fps, pending, frameCount, fpsUpdateTime,
                   quarkAngle, frameNo, calls, scene, resets>>

\* Simulation.start()
Start ==
    /\ app = "Simulation"
    /\ pending < MaxPending
    /\ SetFields(Animate([SimState EXCEPT !.isRunning = TRUE, !.lastTime = now],
                         0, coulombConstant, width, height))
    /\ UNCHANGED <<app, width, height, now, coulombConstant, frameCount,
                   fpsUpdateTime, quarkAngle, frameNo, initCalls,
                   lastCount, calls, scene, resets>>

\* Simulation.stop()
Stop ==
    /\ app = "Simulation"
    /\ isRunning' = FALSE
    /\ UNCHANGED <<app, width, height, now, lastTime, particles, coulombConstant,
                   frameTimes, fps, pending, frameCount, fpsUpdateTime,
                   quarkAngle, frameNo, initCalls,
                   lastCount, calls, scene, resets>>

\* Simulation.updateCoulombConstant(value)
UpdateCoulombConstant ==
    /\ app = "Simulation"
    /\ \E value \in CoulombValues : coulombConstant' = value
    /\ UNCHANGED <<app, width, height, now, isRunning, lastTime, particles,
                   frameTimes, fps, pending, frameCount, fpsUpdateTime,
                   quarkAngle, frameNo, initCalls,
                   lastCount, calls, scene, resets>>

\* the next animation frame: the callbacks registered by
\* requestAnimationFrame((time) => this.animate(time)) run with time = now
Frame ==
    /\ app = "Simulation"
    /\ \E gap \in FrameGaps :
         /\ frameNo < MaxFrames
         /\ frameNo' = frameNo + 1
         /\ now' = now + gap
         /\ SetFields(RunCallbacks([SimState EXCEPT !.pending = 0], pending,
                                   now + gap, coulombConstant, width, height))
    /\ UNCHANGED <<app, width, height, coulombConstant, frameCount,
                   fpsUpdateTime, quarkAngle, initCalls,
                   lastCount, calls, scene, resets>>

(***************************************************************************)
(* A Simulation left running with no particles, so that frameTimes fills:  *)
(* before the frames counted by frameNo, frames 16 ms apart run for a      *)
(* single frame loop while the window is not full.                         *)
(***************************************************************************)
WarmInit == Init /\ app = "Simulation"

\* an animation frame 16 ms after the previous one
WarmFrame ==
    /\ app = "Simulation"
    /\ isRunning
    /\ pending = 1
    /\ frameNo = 0
    /\ Len(frameTimes) < FrameTimesMaxLength
    /\ now' = now + 16
    /\ SetFields(RunCallbacks([SimState EXCEPT !.pending = 0], pending,
                              now + 16, coulombConstant, width, height))
    /\ UNCHANGED <<app, width, height, coulombConstant, frameCount,
                   fpsUpdateTime, quarkAngle, frameNo, initCalls,
                   lastCount, calls, scene, resets>>

WarmNext ==
    \/ WarmFrame
    \/ Start
    \/ Stop
    \/ Frame

WarmSpec == WarmInit /\ [][WarmNext]_vars

(***************************************************************************)
(* Simulation3D (part_005): start, pause and the frame loop.               *)
(***************************************************************************)
Sim3DState == [isRunning |-> isRunning, lastTime |-> lastTime, fps |-> fps,
               pending |-> pending, frameCount |-> frameCount,
               fpsUpdateTime |-> fpsUpdateTime, quarkAngle |-> quarkAngle]

\* Simulation3D.animate() run when performance.now() = t
Animate3D(st, t) ==
    IF ~st.isRunning THEN st
    ELSE
    LET deltaTime == t - st.lastTime
        count == st.frameCount + 1
        total == st.fpsUpdateTime + deltaTime
    IN  [st EXCEPT !.pending = @ + 1,
                   !.lastTime = t,
                   !.frameCount = IF total >= 1000 THEN 0 ELSE count,
                   !.fpsUpdateTime = IF total >= 1000 THEN 0 ELSE total,
                   !.fps = IF total >= 1000 THEN RoundDiv(count * 1000, total) ELSE @,
                   !.quarkAngle = @ + 1]

RECURSIVE RunCallbacks3D(_, _, _)
RunCallbacks3D(st, n, t) ==
    IF n = 0 THEN st ELSE RunCallbacks3D(Animate3D(st, t), n - 1, t)

SetFields3D(st) ==
    /\ isRunning' = st.isRunning
    /\ lastTime' = st.lastTime
    /\ fps' = st.fps
    /\ pending' = st.pending
    /\ frameCount' = st.frameCount
    /\ fpsUpdateTime' = st.fpsUpdateTime
    /\ quarkAngle' = st.quarkAngle

\* Simulation3D.start()
Start3D ==
    /\ app = "Simulation3D"
    /\ pending < MaxPending
    /\ SetFields3D(Animate3D([Sim3DState EXCEPT !.isRunning = TRUE], now))
    /\ UNCHANGED <<app, width, height, now, particles, coulombConstant,
                   frameTimes, frameNo, initCalls,
                   lastCount, calls, scene, resets>>

\* Simulation3D.pause()
Pause3D ==
    /\ app = "Simulation3D"
    /\ isRunning' = FALSE
    /\ UNCHANGED <<app, width, height, now, lastTime, particles, coulombConstant,
                   frameTimes, fps, pending, frameCount, fpsUpdateTime,
                   quarkAngle, frameNo, initCalls,
                   lastCount, calls, scene, resets>>

\* the next animation frame: the callbacks registered by
\* requestAnimationFrame(() => this.animate()) run
Frame3D ==
    /\ app = "Simulation3D"
    /\ \E gap \in FrameGaps :
         /\ frameNo < MaxFrames
         /\ frameNo' = frameNo + 1
         /\ now' = now + gap
         /\ SetFields3D(RunCallbacks3D([Sim3DState EXCEPT !.pending = 0], pending,
                                       now + gap))
    /\ UNCHANGED <<app, width, height, particles, coulombConstant, frameTimes,
                   initCalls,
                   lastCount, calls, scene, resets>>

Next ==
    \/ InitializeParticles
    \/ Start
    \/ Stop
    \/ UpdateCoulombConstant
    \/ Frame
    \/ Start3D
    \/ Pause3D
    \/ Frame3D

Spec == Init /\ [][Next]_vars

(***************************************************************************)
(* Simulation3D (part_005): the atom rebuilt by reset and setElement.      *)
(***************************************************************************)
AtomInit == Init /\ app = "Simulation3D"

\* the fields reset() and setElement() leave alone
AtomFrame ==
    UNCHANGED <<app, width, height, now, isRunning, lastTime, particles,
                coulombConstant, frameTimes, fps, pending, frameCount,
                fpsUpdateTime, quarkAngle, frameNo, initCalls, lastCount, calls>>

\* Simulation3D.reset()
Reset3D ==
    /\ app = "Simulation3D"
    /\ resets < MaxResets
    /\ resets' = resets + 1
    /\ scene' = Reset(scene)
    /\ AtomFrame

\* Simulation3D.setElement(atomicNumber)
SetElement3D ==
    /\ app = "Simulation3D"
    /\ resets < MaxResets
    /\ resets' = resets + 1
    /\ \E atomicNumber \in AtomicNumbers : scene' = SetElement(scene, atomicNumber)
    /\ AtomFrame

AtomNext ==
    \/ Reset3D
    \/ SetElement3D

AtomSpec == AtomInit /\ [][AtomNext]_vars

(***************************************************************************)
(* Particle with a type (part_004) and the PhysicsEngine that updates it   *)
(* (part_002, first class).  Velocities are per frame: dt counts frames.   *)
(***************************************************************************)
\* Math.cos(a) and Math.sin(a) for a in thousandths of a radian, a small,
\* in ten-thousandths: 1 - a^2/2 + a^4/24 and a - a^3/6
Cos10k(a) ==
    10000 - (a * a) \div 200 + (((a * a) \div 100) * ((a * a) \div 100)) \div 240000

Sin10k(a) == 10 * a - (a * a * a) \div 600000

\* new Particle(x, y, charge, type) with the velocity draws rvx, rvy; anchor
\* is the place in the collection of this.nucleus / this.parent (0: null),
\* orbit is orbitalRadius / localRadius, angle is orbitalAngle / localAngle
TypedParticle(type, x, y, rvx, rvy, anchor, orbit, isNucleus) ==
    [type |-> type, x |-> x, y |-> y,
     vx |-> TDiv((rvx - 500) * 2 * Fix(1), 1000),
     vy |-> TDiv((rvy - 500) * 2 * Fix(1), 1000),
     ax |-> 0, ay |-> 0,
     charge |-> IF type = "electron" THEN -1 ELSE IF type = "proton" THEN 1 ELSE 0,
     radius |-> IF type = "electron" THEN Fix(4)
                ELSE IF type = "quark" THEN Fix(2) ELSE Fix(8),
     anchor |-> anchor, orbit |-> orbit, angle |-> 0, isNucleus |-> isNucleus]

\* the position of a particle on its orbit around the particle c
OnOrbit(p, c, angle) ==
    [p EXCEPT !.angle = angle,
              !.x = c.x + TDiv(Cos10k(angle) * p.orbit, 10000),
              !.y = c.y + TDiv(Sin10k(angle) * p.orbit, 10000)]

\* update(dt) without its last two assignments
TypedUpdateKeepsAcceleration(ps, i, dt) ==
    LET p == ps[i]
    IN  IF p.type = "electron" /\ p.anchor # 0
        THEN OnOrbit(p, ps[p.anchor], p.angle + OrbitalSpeedMilli * dt)
        ELSE IF p.type = "quark" /\ p.anchor # 0
        THEN OnOrbit(p, ps[p.anchor], p.angle + QuarkSpeedMilli * dt)
        ELSE p

\* Particle.update(dt) of the particle at place i of ps
TypedUpdate(ps, i, dt) ==
    LET p == ps[i]
        moved ==
          IF p.type = "electron" /\ p.anchor # 0
          THEN OnOrbit(p, ps[p.anchor], p.angle + OrbitalSpeedMilli * dt)
          ELSE IF p.type = "quark" /\ p.anchor # 0
          THEN OnOrbit(p, ps[p.anchor], p.angle + QuarkSpeedMilli * dt)
          ELSE IF p.isNucleus THEN p
          ELSE LET vx1 == TDiv((p.vx + p.ax * dt) * TypedDampingPermille, 1000)
                   vy1 == TDiv((p.vy + p.ay * dt) * TypedDampingPermille, 1000)
               IN  [p EXCEPT !.vx = vx1, !.vy = vy1,
                             !.x = p.x + vx1 * dt, !.y = p.y + vy1 * dt]
    IN  [moved EXCEPT !.ax = 0, !.ay = 0]

\* Particle.checkBoundary(width, height)
CheckBoundary(p, w, h) ==
    LET q == IF p.x - p.radius < 0
             THEN [p EXCEPT !.x = p.radius, !.vx = Abs(p.vx)]
             ELSE IF p.x + p.radius > Fix(w)
             THEN [p EXCEPT !.x = Fix(w) - p.radius, !.vx = -Abs(p.vx)]
             ELSE p
    IN  IF q.y - q.radius < 0
        THEN [q EXCEPT !.y = q.radius, !.vy = Abs(q.vy)]
        ELSE IF q.y + q.radius > Fix(h)
        THEN [q EXCEPT !.y = Fix(h) - q.radius, !.vy = -Abs(q.vy)]
        ELSE q

\* PhysicsEngine.updateParticles(particles, canvasWidth, canvasHeight, dt)
\* from the particle at place i on
RECURSIVE UpdateParticles(_, _, _, _, _)
UpdateParticles(ps, i, w, h, dt) ==
    IF i > Len(ps) THEN ps
    ELSE UpdateParticles([ps EXCEPT ![i] = CheckBoundary(TypedUpdate(ps, i, dt), w, h)],
                         i + 1, w, h, dt)

\* orbitalRadius of an electron, in hundredths: the constructor's 0, or set
\* by the page
OrbitalRadii == {0, Fix(30), Fix(68)}
\* x of the nucleus on a canvas w wide: the centre, or half a radius from
\* the left wall
NucleusPlaces(w) == {Fix(w) \div 2, Fix(4)}

\* an atom on a canvas w by h: a nucleus at (nx, h / 2), an electron on an
\* orbit of radius orbit around it, a quark inside it, and a free particle
Atom(w, h, nx, orbit) ==
    << TypedParticle("proton", nx, Fix(h) \div 2, 500, 500, 0, 0, TRUE),
       TypedParticle("electron", nx + orbit, Fix(h) \div 2, 950, 0, 1, orbit, FALSE),
       TypedParticle("quark", nx + Fix(5), Fix(h) \div 2, 500, 950, 1, Fix(5), FALSE),
       TypedParticle("free", Fix(Radius) + Fix(1), Fix(h) \div 2, 0, 950, 0, 0, FALSE) >>

\* JavaScript Numbers that may be non-finite: kind is "finite", "Infinity",
\* "-Infinity" or "NaN", and val is the value of a finite one
Finite(v) == [kind |-> "finite", val |-> v]

NonFinite(kind) == [kind |-> kind, val |-> 0]

\* n / d for a divisor d >= 0
Quotient(n, d) ==
    IF d # 0 THEN Finite(TDiv(n, d))
    ELSE IF n > 0 THEN NonFinite("Infinity")
    ELSE IF n < 0 THEN NonFinite("-Infinity")
    ELSE NonFinite("NaN")

\* a + b
Plus(a, b) ==
    IF a.kind = "NaN" \/ b.kind = "NaN" THEN NonFinite("NaN")
    ELSE IF a.kind = "finite" /\ b.kind = "finite" THEN Finite(a.val + b.val)
    ELSE IF a.kind = "finite" THEN b
    ELSE IF b.kind = "finite" \/ a.kind = b.kind THEN a
    ELSE NonFinite("NaN")

\* this.mass of a typed particle, in tenths
TypedMassTenths(type) ==
    IF type = "electron" THEN 1
    ELSE IF type = "proton" THEN 18360
    ELSE IF type = "neutron" THEN 18390
    ELSE IF type = "quark" THEN 3 ELSE 10

\* Particle.getKineticEnergy() of a typed particle, in hundredths squared
TypedKineticEnergy(p) == (TypedMassTenths(p.type) * (p.vx * p.vx + p.vy * p.vy)) \div 20

\* the potential-energy loop of calculateTotalEnergy from the pair (i, j)
\* on, with potentialEnergy = acc so far
RECURSIVE TotalEnergyLoop(_, _, _, _)
TotalEnergyLoop(ps, i, j, acc) ==
    IF i > Len(ps) THEN acc
    ELSE IF j > Len(ps) THEN TotalEnergyLoop(ps, i + 1, i + 2, acc)
    ELSE IF ps[i].charge = 0 /\ ps[j].charge = 0
    THEN TotalEnergyLoop(ps, i, j + 1, acc)
    ELSE LET distance == Hypot(ps[j].x - ps[i].x, ps[j].y - ps[i].y)
             term == Quotient(TypedK * ps[i].charge * ps[j].charge * Fix(1) * Fix(1),
                              distance)
         IN  TotalEnergyLoop(ps, i, j + 1, Plus(acc, term))

\* PhysicsEngine.calculateTotalEnergy(particles) of the engine of the typed
\* particles
TypedTotalEnergy(ps) ==
    LET kineticEnergy == Finite(SumSeq([i \in 1..Len(ps) |-> TypedKineticEnergy(ps[i])]))
        potentialEnergy == TotalEnergyLoop(ps, 1, 2, Finite(0))
    IN  [kinetic |-> kineticEnergy, potential |-> potentialEnergy,
         total |-> Plus(kineticEnergy, potentialEnergy)]

(***************************************************************************)
(* PhysicsEngine and Particle driven directly, call by call.               *)
(***************************************************************************)
\* the fields no engine call touches
EngineFrame ==
    UNCHANGED <<app, width, height, now, isRunning, lastTime, coulombConstant,
                frameTimes, fps, pending, frameCount, fpsUpdateTime,
                quarkAngle, frameNo, initCalls, lastCount, scene, resets>>

EngineCall ==
    /\ calls < MaxCalls
    /\ calls' = calls + 1
    /\ EngineFrame

\* physics.applyCoulombForce(particles)
CallApplyCoulombForce ==
    /\ app = "PhysicsEngine"
    /\ particles' = ApplyCoulombForce(particles, coulombConstant)
    /\ EngineCall

\* particle.update(dt) for every particle
CallUpdate ==
    /\ app = "PhysicsEngine"
    /\ \E dt \in EngineDts :
         particles' = [i \in 1..Len(particles) |-> Update(particles[i], dt)]
    /\ EngineCall

\* physics.handleBoundaries(particles)
CallHandleBoundaries ==
    /\ app = "PhysicsEngine"
    /\ particles' = HandleBoundaries(particles, width, height)
    /\ EngineCall

\* physics.updateParticles(particles, canvas.width, canvas.height)
CallUpdateParticles ==
    /\ app = "TypedEngine"
    /\ particles' = UpdateParticles(particles, 1, width, height, 1)
    /\ EngineCall

\* a PhysicsEngine with the size of a canvas and particles placed as
\* initializeParticles places them, or the engine of the typed particles
\* with an atom
EngineInit ==
    /\ width \in CanvasSizes
    /\ height = width
    /\ \/ /\ app = "PhysicsEngine"
          /\ coulombConstant \in {DefaultCoulombConstant} \cup CoulombValues
          /\ \E rs \in EngineStreams : particles = NewParticles(<<>>, rs, width, height)
       \/ /\ app = "TypedEngine"
          /\ coulombConstant = DefaultCoulombConstant
          /\ \E nx \in NucleusPlaces(width) : \E orbit \in OrbitalRadii :
               particles = Atom(width, height, nx, orbit)
    /\ now = 0
    /\ isRunning = FALSE
    /\ lastTime = 0
    /\ frameTimes = <<>>
    /\ fps = 0
    /\ pending = 0
    /\ frameCount = 0
    /\ fpsUpdateTime = 0
    /\ quarkAngle = 0
    /\ frameNo = 0
    /\ initCalls = 0
    /\ lastCount = 0
    /\ calls = 0
    /\ scene = NoScene
    /\ resets = 0

EngineNext ==
    \/ CallUpdateParticles
    \/ CallApplyCoulombForce
    \/ CallUpdate
    \/ CallHandleBoundaries

EngineSpec == EngineInit /\ [][EngineNext]_vars

(***************************************************************************)
(* Properties.                                                             *)
(***************************************************************************)
Charged(p) == p.charge # 0

SamePlace(p, q) == p.x = q.x /\ p.y = q.y

\* the component of the force f, applied to p, along the direction from q to p
AwayFrom(p, q, f) == (p.x - q.x) * f[1] + (p.y - q.y) * f[2]

Neg(f) == << -f[1], -f[2] >>

Pairs == { ij \in (1..Len(particles)) \X (1..Len(particles)) : ij[1] < ij[2] }

\* C1: for every pair of charged particles at distinct places, the force
\* applyCoulombForce applies to each of the two points away from the other
\* when the charges have the same sign and toward it when they differ.
C1_LikeChargesRepel ==
    \A ij \in Pairs :
        LET p1 == particles[ij[1]]
            p2 == particles[ij[2]]
            f == PairForce(p1, p2, coulombConstant)
        IN  (Charged(p1) /\ Charged(p2) /\ ~SamePlace(p1, p2)) =>
              IF p1.charge = p2.charge
              THEN AwayFrom(p1, p2, f) > 0 /\ AwayFrom(p2, p1, Neg(f)) > 0
              ELSE AwayFrom(p1, p2, f) < 0 /\ AwayFrom(p2, p1, Neg(f)) < 0

\* C2: at most one frame callback is pending at any time, in Simulation and
\* in Simulation3D, after any sequence of start, stop/pause and frames.
C2_AtMostOnePendingFrame == pending <= 1

\* C3: on a canvas at least 2 * radius wide and high no particle is ever
\* outside [0, width] x [0, height] between ticks.
C3_ParticlesInsideDomain ==
    (width >= 2 * Radius /\ height >= 2 * Radius) =>
        \A i \in 1..Len(particles) :
            /\ 0 <= particles[i].x /\ particles[i].x <= Fix(width)
            /\ 0 <= particles[i].y /\ particles[i].y <= Fix(height)

\* frame gaps of at least the cap, in ms
LongGaps == {101, 5000}

\* C4: the dt animate passes to update never exceeds 0.1 s; a tick after a
\* gap of 0.1 s or more leaves every particle exactly where a tick after a
\* gap of 0.1 s leaves it, and sets lastTime to the new timestamp.
C4_DtClamped ==
    (app = "Simulation" /\ isRunning) =>
        LET capped == Animate(SimState, lastTime + MaxDtMs, coulombConstant, width, height)
        IN  \A gap \in LongGaps :
              LET long == Animate(SimState, lastTime + gap, coulombConstant, width, height)
              IN  /\ ClampDt(gap) <= MaxDtMs
                  /\ long.particles = capped.particles
                  /\ long.lastTime = lastTime + gap

\* a running simulation with particles has just run a tick after a gap
\* longer than the cap
C4_Witness ==
    /\ app = "Simulation" /\ isRunning /\ particles # <<>>
    /\ lastTime = now
    /\ frameTimes # <<>> /\ frameTimes[Len(frameTimes)] > MaxDtMs

\* C5: when start() returns the simulation is running and lastTime is the
\* wall-clock time start() read.
C5_StartRecordsWallClock == [][Start => (isRunning' /\ lastTime' = now)]_vars

\* C6: a frame callback that fires while the simulation is stopped changes
\* no particle, neither the FPS window nor lastTime, and registers no
\* further callback.
C6_StoppedFrameDoesNothing ==
    [][((Frame \/ Frame3D) /\ ~isRunning) =>
          /\ UNCHANGED <<particles, lastTime, frameTimes, fps, frameCount,
                         fpsUpdateTime, quarkAngle>>
          /\ pending' = 0]_vars

\* a callback registered by a tick has fired after stop() and found the
\* simulation stopped
C6_Witness ==
    /\ app = "Simulation" /\ ~isRunning /\ pending = 0
    /\ particles # <<>> /\ frameTimes # <<>>
    /\ frameNo > 0 /\ lastTime < now

NonPositiveDts == {0, -16, -1000}

Accelerations == { <<0, 0>>, <<Fix(10), 0>>, <<0, -Fix(10)>> }

\* C7: Particle.update(dt) with dt <= 0 changes neither position nor
\* velocity, whatever the accumulated acceleration.
C7_UpdateNonPositiveDtIsNoOp ==
    \A i \in 1..Len(particles) : \A dt \in NonPositiveDts : \A a \in Accelerations :
        LET p == [particles[i] EXCEPT !.ax = a[1], !.ay = a[2]]
            q == Update(p, dt)
        IN  q.x = p.x /\ q.y = p.y /\ q.vx = p.vx /\ q.vy = p.vy

\* C8: for a charged pair on a horizontal line closer than minDistance the
\* force applied equals the force applied when the second particle is moved
\* along that line to exactly minDistance from the first.
C8_ForceBelowMinDistance ==
    \A ij \in Pairs :
        LET p1 == particles[ij[1]]
            p2 == particles[ij[2]]
            dx == p2.x - p1.x
            far == [p2 EXCEPT !.x = p1.x + Sign(dx) * Fix(MinDistance)]
        IN  (Charged(p1) /\ Charged(p2) /\ p1.y = p2.y
               /\ 0 < Abs(dx) /\ Abs(dx) < Fix(MinDistance)) =>
              PairForce(p1, p2, coulombConstant) = PairForce(p1, far, coulombConstant)

\* the accumulators after a force pass over the current particles
Forced == ApplyCoulombForce(particles, coulombConstant)

\* C9: the force applied to p2 is the exact negation of the force applied
\* to p1, whichever of the two comes first, and after a force pass the sum
\* of mass * acceleration over all particles is zero in both components.
C9_NewtonThirdLaw ==
    LET forced == Forced
    IN  /\ \A ij \in Pairs :
             PairForce(particles[ij[2]], particles[ij[1]], coulombConstant)
               = Neg(PairForce(particles[ij[1]], particles[ij[2]], coulombConstant))
        /\ SumSeq([i \in 1..Len(particles) |-> Mass * forced[i].ax]) = 0
        /\ SumSeq([i \in 1..Len(particles) |-> Mass * forced[i].ay]) = 0

\* three charged particles that have been through a force pass and an update
\* and pull on each other
C9_Witness ==
    /\ Len(particles) = 3 /\ \A i \in 1..3 : Charged(particles[i])
    /\ app = "PhysicsEngine" /\ calls > 1
    /\ \E i \in 1..3 : Abs(particles[i].vx) > Fix(1)
    /\ \A i \in 1..3 : Forced[i].ax # 0 \/ Forced[i].ay # 0

\* C10: at the start of every tick every particle has ax = 0 and ay = 0.
C10_AccumulatorsZeroAtTickStart ==
    \A i \in 1..Len(particles) : particles[i].ax = 0 /\ particles[i].ay = 0

\* a tick has accelerated a particle beyond any initial speed, and the
\* next force pass will push it again
C10_Witness ==
    /\ isRunning /\ frameTimes # <<>> /\ Len(particles) >= 2
    /\ \E i \in 1..Len(particles) :
         /\ Abs(particles[i].vx) > Fix(1)
         /\ Forced[i].ax # 0

\* C11: a call of initializeParticles with a count of 0 or less is rejected:
\* it leaves the particle collection as it was.
C11_NonPositiveCountRejected ==
    [][(initCalls' = initCalls + 1 /\ lastCount' <= 0) => UNCHANGED particles]_vars

\* C12: initializeParticles(count) with count > 0 leaves exactly count
\* particles, none of them a prior one, each with charge -1, 0 or +1, mass 1
\* and zero acceleration, and changes neither isRunning nor the Coulomb
\* constant nor lastTime; after every step the size of the collection is the
\* count of the latest such call.
C12_InitializeReplaces ==
    [][/\ lastCount' > 0 => Len(particles') = lastCount'
       /\ (initCalls' = initCalls + 1 /\ lastCount' > 0) =>
            /\ \A i \in 1..Len(particles') :
                 /\ particles'[i].charge \in {-1, 0, 1}
                 /\ particles'[i].ax = 0 /\ particles'[i].ay = 0
                 /\ Mass = 1
            /\ \E rs \in RandomStreams :
                 particles' = [i \in 1..Len(rs) |-> DrawParticle(rs[i], width, height)]
            /\ UNCHANGED <<isRunning, coulombConstant, lastTime>>]_vars

\* a second initializeParticles call was made with a positive count on a
\* simulation that has been started and whose slider has been moved
C12_Witness ==
    /\ initCalls = 2 /\ lastCount = 2 /\ Len(particles) = 2
    /\ isRunning /\ coulombConstant # DefaultCoulombConstant /\ pending > 0

\* C13: for two unit charges closer than minDistance (0.01 apart, the
\* resolution of the arithmetic) and maxForce < k / minDistance^2, the force
\* applied to each has magnitude exactly maxForce.
C13_TinyDistanceForceIsMaxForce ==
    \A ij \in Pairs :
        LET p1 == particles[ij[1]]
            p2 == particles[ij[2]]
            near == [p2 EXCEPT !.x = p1.x + 1, !.y = p1.y]
            f == PairForce(p1, near, coulombConstant)
        IN  (Charged(p1) /\ Charged(p2)
               /\ MaxForce * MinDistance * MinDistance < coulombConstant) =>
              (Abs(f[1]) = Fix(MaxForce) /\ f[2] = 0)

\* the unclamped distance between two particles
Separation(p1, p2) == Hypot(p2.x - p1.x, p2.y - p1.y)

\* k * |q1 * q2| / r^2 for r in hundredths, in hundredths
CoulombLaw(q1, q2, r, k) == (k * Abs(q1 * q2) * Fix(1)) \div ((r * r) \div (Fix(1) * Fix(1)))

\* what the arithmetic of the model may lose on a force of magnitude m: a
\* hundredth per division and a thousandth of m on each component
Resolution(m) == 3 + m \div 500

\* C14: for a charged pair at distance r >= minDistance the force applied is
\* along the line joining the two and its magnitude is
\* min(k * |q1 * q2| / r^2, maxForce), to the resolution of the arithmetic
\* (exactly 12.5 for unit charges 20 apart with k = 5000); and for no pair,
\* at any distance, does the magnitude exceed maxForce by more than that
\* resolution.
C14_ForceMagnitude ==
    (app \in {"Simulation", "PhysicsEngine"}) =>
    \A ij \in Pairs :
        LET p1 == particles[ij[1]]
            p2 == particles[ij[2]]
            dx == p2.x - p1.x
            dy == p2.y - p1.y
            r == Separation(p1, p2)
            f == PairForce(p1, p2, coulombConstant)
            magnitude == Hypot(f[1], f[2])
        IN  /\ magnitude <= Fix(MaxForce) + Resolution(Fix(MaxForce))
            /\ (Charged(p1) /\ Charged(p2) /\ r >= Fix(MinDistance)) =>
                 LET expected == Min(CoulombLaw(p1.charge, p2.charge, r, coulombConstant),
                                     Fix(MaxForce))
                 IN  /\ Abs(magnitude - expected) <= Resolution(expected)
                     /\ Abs(f[1] * dy - f[2] * dx)
                          <= Resolution(expected) * (Abs(dx) + Abs(dy))
                     /\ (r = Fix(MinDistance) /\ coulombConstant = DefaultCoulombConstant
                           /\ dy = 0) => magnitude = 1250

\* unit charges exactly 20 apart on a horizontal line under k = 5000 after
\* engine calls, and another pair off the axes
C14_Witness ==
    /\ app = "PhysicsEngine" /\ calls > 0
    /\ coulombConstant = DefaultCoulombConstant
    /\ \E ij \in Pairs :
         /\ Charged(particles[ij[1]]) /\ Charged(particles[ij[2]])
         /\ particles[ij[1]].y = particles[ij[2]].y
         /\ Separation(particles[ij[1]], particles[ij[2]]) = Fix(MinDistance)
    /\ \E ij \in Pairs :
         /\ Charged(particles[ij[1]]) /\ Charged(particles[ij[2]])
         /\ particles[ij[1]].y # particles[ij[2]].y
         /\ particles[ij[1]].x # particles[ij[2]].x
         /\ Separation(particles[ij[1]], particles[ij[2]]) > Fix(MinDistance)

\* the three passes of one tick, in the order the claim gives them
ForcePass(ps) == ApplyCoulombForce(ps, coulombConstant)

IntegratePass(ps, dt) == [i \in 1..Len(ps) |-> Update(ps[i], dt)]

BoundaryPass(ps) == HandleBoundaries(ps, width, height)

\* n ticks at one timestamp: the first after dt ms, the others after 0 ms
RECURSIVE Pipeline(_, _, _)
Pipeline(ps, n, dt) ==
    IF n = 0 THEN ps
    ELSE Pipeline(BoundaryPass(IntegratePass(ForcePass(ps), dt)), n - 1, 0)

\* C15: every tick of a running Simulation is the force pass over all
\* pairs, then one update(clampedDt) of every particle, then the boundary
\* handling of every particle, once each: a frame runs exactly one such tick
\* per pending callback, and start() runs exactly one.
C15_TickPipeline ==
    [][(app = "Simulation") =>
         /\ (isRunning /\ frameNo' = frameNo + 1) =>
               particles' = Pipeline(particles, pending, Min(now' - lastTime, MaxDtMs))
         /\ (now' = now /\ pending' = pending + 1) =>
               particles' = Pipeline(particles, 1, Min(0 - now, MaxDtMs))]_vars

\* a frame has just run the tick of a running simulation whose particles
\* push each other and were placed by the latest initializeParticles call
C15_Witness ==
    /\ app = "Simulation" /\ isRunning /\ frameNo > 0 /\ lastTime = now
    /\ pending = 1 /\ Len(particles) = 3
    /\ \A i \in 1..3 : Charged(particles[i]) /\ particles[i].ax = 0
    /\ \E i \in 1..3 : Abs(particles[i].vy) > Fix(1)

\* places to put a particle relative to the walls: one unit across the
\* near wall, touching it, where it is, touching the far wall, one unit
\* across it
Placements(c, size) ==
    {Fix(Radius) - Fix(1), Fix(Radius), c, Fix(size) - Fix(Radius),
     Fix(size) - Fix(Radius) + Fix(1)}

AcrossNear(c) == c - Fix(Radius) < 0

AcrossFar(c, size) == c + Fix(Radius) > Fix(size)

Bounced(p) == HandleBoundaries(<<p>>, width, height)[1]

InBounds(p, radius) ==
    /\ radius <= p.x /\ p.x <= Fix(width) - radius
    /\ radius <= p.y /\ p.y <= Fix(height) - radius

\* C17: handleBoundaries, and Particle.checkBoundary, applied to a particle
\* that is in bounds changes neither its position nor its velocity, once or
\* twice in succession.
C17_InBoundsUntouched ==
    \A i \in 1..Len(particles) :
        LET radius == IF app = "TypedEngine" THEN particles[i].radius ELSE Fix(Radius)
            xs == {radius, particles[i].x, Fix(width) - radius}
            ys == {radius, particles[i].y, Fix(height) - radius}
        IN  \A x \in xs : \A y \in ys :
              LET p == [particles[i] EXCEPT !.x = x, !.y = y]
              IN  InBounds(p, radius) =>
                    IF app = "TypedEngine"
                    THEN /\ CheckBoundary(p, width, height) = p
                         /\ CheckBoundary(CheckBoundary(p, width, height), width, height) = p
                    ELSE /\ Bounced(p) = p
                         /\ Bounced(Bounced(p)) = p

\* engine calls have left every particle in bounds, one of them moving along
\* both axes with a force on it
C17_Witness ==
    /\ app = "PhysicsEngine" /\ calls > 1 /\ Len(particles) > 1
    /\ \A i \in 1..Len(particles) : InBounds(particles[i], Fix(Radius))
    /\ \E i \in 1..Len(particles) :
         particles[i].vx # 0 /\ particles[i].vy # 0 /\ particles[i].ax # 0

\* C18: on every tick the velocity of each particle that stays clear of the
\* walls becomes (v + a * dt) * damping, and its position advances by that
\* velocity times dt.
C18_VelocityDampedEveryTick ==
    [][(app = "Simulation" /\ isRunning /\ frameNo' = frameNo + 1 /\ pending = 1) =>
         \A i \in 1..Len(particles) :
             LET dt == Min(now' - lastTime, MaxDtMs)
                 vx1 == Damp(particles[i].vx + TDiv(Forced[i].ax * dt, 1000))
                 vy1 == Damp(particles[i].vy + TDiv(Forced[i].ay * dt, 1000))
             IN  (/\ Fix(Radius) < particles'[i].x
                  /\ particles'[i].x < Fix(width) - Fix(Radius)
                  /\ Fix(Radius) < particles'[i].y
                  /\ particles'[i].y < Fix(height) - Fix(Radius)) =>
                   /\ particles'[i].vx = vx1
                   /\ particles'[i].vy = vy1
                   /\ particles'[i].x = particles[i].x + TDiv(vx1 * dt, 1000)
                   /\ particles'[i].y = particles[i].y + TDiv(vy1 * dt, 1000)]_vars

\* two opposite unit charges on a horizontal line with no momentum, as far
\* apart as minDistance or farther and more than a radius clear of the walls
ReleasedPair(ps) ==
    /\ Len(ps) = 2
    /\ ps[1].charge * ps[2].charge = -1
    /\ ps[1].y = ps[2].y /\ ps[1].vy = 0 /\ ps[2].vy = 0
    /\ ps[1].vx + ps[2].vx = 0
    /\ Separation(ps[1], ps[2]) >= Fix(MinDistance)
    /\ \A i \in 1..2 : InBounds(ps[i], 2 * Fix(Radius))

\* C19: while two opposite unit charges released from rest are clear of the
\* walls and of each other, a tick does not lower the kinetic energy and
\* does not raise the potential energy.
C19_EnergyFromRest ==
    [][(app = "Simulation" /\ isRunning /\ frameNo' = frameNo + 1 /\ pending = 1
          /\ ReleasedPair(particles) /\ ReleasedPair(particles')) =>
         /\ CalculateKineticEnergy(particles') >= CalculateKineticEnergy(particles)
         /\ CalculatePotentialEnergy(particles', coulombConstant)
              <= CalculatePotentialEnergy(particles, coulombConstant)]_vars

Exempt(p) ==
    \/ p.type \in {"electron", "quark"} /\ p.anchor # 0
    \/ p.isNucleus

\* C20: updateParticles leaves the velocity of every orbital particle and of
\* every nucleus particle as it was, a nucleus particle where it was and an
\* orbital particle on its orbit.
C20_AnchoredExemptFromBoundary ==
    [][(app = "TypedEngine" /\ calls' = calls + 1) =>
         \A i \in 1..Len(particles) :
             Exempt(particles[i]) =>
               /\ particles'[i].vx = particles[i].vx
               /\ particles'[i].vy = particles[i].vy
               /\ particles[i].isNucleus =>
                    (particles'[i].x = particles[i].x /\ particles'[i].y = particles[i].y)
               /\ particles[i].anchor # 0 =>
                    particles'[i] = OnOrbit(particles[i], particles'[particles[i].anchor],
                                            particles'[i].angle)]_vars

(***************************************************************************)
(* Typed Particle.update(dt), by motion mode.                              *)
(***************************************************************************)
\* dt values, in frames
TypedDts == {1, 2}

\* the collection with the acceleration a accumulated on the particle at i
Accelerated(ps, i, a) == [ps EXCEPT ![i].ax = a[1], ![i].ay = a[2]]

\* C21: update(dt) on an electron that has a nucleus advances orbitalAngle by
\* orbitalSpeed * dt and puts it at nucleus + orbitalRadius * (cos, sin) of
\* the new angle, with vx and vy unchanged whatever acceleration was
\* accumulated; update on an isNucleus particle changes neither position nor
\* velocity; and ax = ay = 0 after update for every particle.
C21_TypedUpdateByMode ==
    app = "TypedEngine" =>
      \A i \in 1..Len(particles) : \A a \in Accelerations : \A dt \in TypedDts :
        LET p == particles[i]
            q == TypedUpdate(Accelerated(particles, i, a), i, dt)
        IN  /\ q.ax = 0 /\ q.ay = 0
            /\ (p.type = "electron" /\ p.anchor # 0) =>
                  LET c == particles[p.anchor]
                  IN  /\ q.angle = p.angle + OrbitalSpeedMilli * dt
                      /\ q.x = c.x + TDiv(Cos10k(q.angle) * p.orbit, 10000)
                      /\ q.y = c.y + TDiv(Sin10k(q.angle) * p.orbit, 10000)
                      /\ q.vx = p.vx /\ q.vy = p.vy
            /\ p.isNucleus =>
                  /\ q.x = p.x /\ q.y = p.y
                  /\ q.vx = p.vx /\ q.vy = p.vy

\* the engine has updated an atom whose electron circles a nucleus
C21_Witness ==
    /\ app = "TypedEngine"
    /\ calls > 1
    /\ \E i \in 1..Len(particles) :
         /\ particles[i].type = "electron"
         /\ particles[i].anchor # 0
         /\ particles[i].orbit > 0
         /\ particles[i].angle = OrbitalSpeedMilli * calls
         /\ particles[particles[i].anchor].isNucleus

(***************************************************************************)
(* Energy statistics.                                                      *)
(***************************************************************************)
\* C22: calculateTotalEnergy of the engine of the typed particles returns
\* finite kinetic, potential and total values for every particle
\* configuration, two particles at the same position included.
C22_TotalEnergyFinite ==
    app = "TypedEngine" =>
      LET e == TypedTotalEnergy(particles)
      IN  /\ e.kinetic.kind = "finite"
          /\ e.potential.kind = "finite"
          /\ e.total.kind = "finite"

\* the sum of f over the set S
RECURSIVE SumOver(_, _)
SumOver(S, f) ==
    IF S = {} THEN 0
    ELSE LET e == CHOOSE e \in S : TRUE IN f[e] + SumOver(S \ {e}, f)

\* k q1 q2 / max(r, minDistance) for the particles at places ij, in
\* hundredths; 0 outright when one of the two is neutral
ClampedCoulombEnergy(ij) ==
    LET p1 == particles[ij[1]]
        p2 == particles[ij[2]]
    IN  IF p1.charge = 0 \/ p2.charge = 0 THEN 0
        ELSE TDiv(coulombConstant * p1.charge * p2.charge * Fix(1) * Fix(1),
                  Max(Separation(p1, p2), Fix(MinDistance)))

\* 0.5 mass |v|^2 of the particle at place i, in hundredths squared
HalfMV2(i) ==
    (Mass * (particles[i].vx * particles[i].vx + particles[i].vy * particles[i].vy)) \div 2

\* C23: calculatePotentialEnergy is the sum over every unordered pair, once
\* each, of k q1 q2 / max(r, minDistance), with no maxForce cap and 0 for a
\* pair with a neutral particle; calculateTotalEnergy is that sum plus the
\* sum of 0.5 mass |v|^2.
C23_PotentialEnergy ==
    app = "PhysicsEngine" =>
      LET pe == SumOver(Pairs, [ij \in Pairs |-> ClampedCoulombEnergy(ij)])
          ke == SumOver(1..Len(particles), [i \in 1..Len(particles) |-> HalfMV2(i)])
      IN  /\ CalculatePotentialEnergy(particles, coulombConstant) = pe
          /\ CalculateTotalEnergy(particles, coulombConstant) = ke + Fix(1) * pe

\* a charged pair closer than minDistance whose term exceeds maxForce, a
\* pair with a neutral particle, and particles in motion
C23_Witness ==
    /\ app = "PhysicsEngine"
    /\ calls > 0
    /\ \E ij \in Pairs :
         /\ Separation(particles[ij[1]], particles[ij[2]]) < Fix(MinDistance)
         /\ Abs(ClampedCoulombEnergy(ij)) > Fix(MaxForce)
    /\ \E ij \in Pairs :
         /\ particles[ij[1]].charge = 0 \/ particles[ij[2]].charge = 0
         /\ particles[ij[1]].charge # 0 \/ particles[ij[2]].charge # 0
    /\ CalculateKineticEnergy(particles) > 0

\* |v| of the particle at place i, in hundredths
SpeedOf(i) == Sqrt(particles[i].vx * particles[i].vx + particles[i].vy * particles[i].vy)

\* C25: getStats returns averageVelocity = (sum of |v|) / max(count, 1) and
\* particleCount = the size of the collection; for an empty collection
\* averageVelocity and totalEnergy are 0.
C25_GetStats ==
    app = "PhysicsEngine" =>
      LET stats == GetStats(particles, coulombConstant, fps)
          n == Len(particles)
          total == SumOver(1..n, [i \in 1..n |-> SpeedOf(i)])
      IN  /\ stats.particleCount = n
          /\ stats.averageVelocity * Max(n, 1) <= total
          /\ total < (stats.averageVelocity + 1) * Max(n, 1)
          /\ n = 0 => (stats.averageVelocity = 0 /\ stats.totalEnergy = 0)

\* several particles that move at different speeds, not along an axis
C25_Witness ==
    /\ app = "PhysicsEngine"
    /\ calls > 0
    /\ Len(particles) = 3
    /\ \E i, j \in 1..Len(particles) :
         /\ SpeedOf(i) # SpeedOf(j)
         /\ particles[i].vx # 0 /\ particles[i].vy # 0
    /\ GetStats(particles, coulombConstant, fps).averageVelocity > 0

(***************************************************************************)
(* The frame-time window and fps.                                          *)
(***************************************************************************)
\* the latest FrameTimesMaxLength entries of s
WindowOf(s) == SubSeq(s, Max(1, Len(s) - FrameTimesMaxLength + 1), Len(s))

\* the dt values of the ticks of a frame at time t: the first callback sees
\* t - lastTime, the others 0
FrameDts(t) ==
    IF isRunning THEN [i \in 1..pending |-> IF i = 1 THEN t - lastTime ELSE 0]
    ELSE <<>>

\* the mean of frameTimes, in microseconds, or 1000 if that is more
GuardedMean == Max(TDiv(SumOver(1..Len(frameTimes), frameTimes) * 1000, Len(frameTimes)), 1000)

\* fps is the integer nearest to 1 / max(mean(frameTimes), 0.001)
FpsOfWindow ==
    /\ Len(frameTimes) <= FrameTimesMaxLength
    /\ fps \in 0..1000
    /\ frameTimes # <<>> =>
          /\ 2 * (fps * GuardedMean - 1000000) <= GuardedMean
          /\ 2 * (1000000 - fps * GuardedMean) <= GuardedMean

\* C24: after every tick frameTimes holds at most 60 samples, the dt values
\* of the latest ticks in arrival order with the oldest dropped first, and
\* fps = round(1 / max(mean(frameTimes), 0.001)); fps is an integer with
\* 0 <= fps <= 1000 in every reachable state.
C24_FrameTimeWindow ==
    /\ []FpsOfWindow
    /\ [][/\ now' # now =>
               frameTimes' = WindowOf(frameTimes \o FrameDts(now'))
          /\ (now' = now /\ pending' = pending + 1) =>
               frameTimes' = WindowOf(Append(frameTimes, 0 - now))]_vars

\* a tick has pushed a long frame onto a full window
C24_Witness ==
    /\ frameNo > 0
    /\ Len(frameTimes) = FrameTimesMaxLength
    /\ frameTimes[FrameTimesMaxLength] = 1000
    /\ frameTimes[1] = 16
    /\ fps \in 1..999

(***************************************************************************)
(* The dt of a tick.                                                       *)
(***************************************************************************)
\* C26: the dt handed to particle.update is never negative: every tick
\* reachable through start(), stop() and frame callbacks, the tick start()
\* runs itself included, has 0 <= clampedDt <= 0.1; frameTimes holds the dt
\* of the latest ticks.
C26_DtNeverNegative ==
    app = "Simulation" =>
      \A i \in 1..Len(frameTimes) :
        /\ 0 <= ClampDt(frameTimes[i])
        /\ ClampDt(frameTimes[i]) <= MaxDtMs

(***************************************************************************)
(* Velocity after a wall correction.                                       *)
(***************************************************************************)
\* velocities perpendicular to a wall, in hundredths
WallSpeeds == {-Fix(1), 0, Fix(1)}

\* C27: whenever handleBoundaries clamps a particle to a wall, its velocity
\* component perpendicular to that wall is afterwards directed into the
\* domain or zero, whatever its sign was before the call.
C27_ClampedVelocityInward ==
    app = "PhysicsEngine" =>
      \A i \in 1..Len(particles) : \A x \in Placements(particles[i].x, width) :
        \A y \in Placements(particles[i].y, height) : \A v \in WallSpeeds :
          LET p == [particles[i] EXCEPT !.x = x, !.y = y, !.vx = v, !.vy = v]
              q == Bounced(p)
          IN  /\ AcrossNear(x) => q.vx >= 0
              /\ (~AcrossNear(x) /\ AcrossFar(x, width)) => q.vx <= 0
              /\ AcrossNear(y) => q.vy >= 0
              /\ (~AcrossNear(y) /\ AcrossFar(y, height)) => q.vy <= 0

(***************************************************************************)
(* The atom of Simulation3D.                                               *)
(***************************************************************************)
\* the number of entries of a list kept as runs
RECURSIVE Entries(_)
Entries(runs) == IF runs = <<>> THEN 0 ELSE Head(runs).count + Entries(Tail(runs))

\* every entry of the list hangs from the current nucleus
OfCurrentNucleus(runs) == \A i \in 1..Len(runs) : runs[i].parent = scene.nucleus

\* C28: after the constructor and after every reset() or setElement() the
\* lists describe exactly the nucleons of the current nucleus:
\* nucleons.length = atomicNumber + round(1.2 atomicNumber), quarks.length =
\* gluons.length = 3 nucleons.length, electrons.length = atomicNumber, and no
\* entry of quarks or gluons refers to a nucleon removed by an earlier reset.
C28_ListsDescribeNucleus ==
    app = "Simulation3D" =>
      LET z == scene.atomicNumber
      IN  /\ Entries(scene.nucleons) = z + (12 * z + 5) \div 10
          /\ Entries(scene.quarks) = 3 * Entries(scene.nucleons)
          /\ Entries(scene.gluons) = 3 * Entries(scene.nucleons)
          /\ Len(scene.electrons) = z
          /\ OfCurrentNucleus(scene.quarks)
          /\ OfCurrentNucleus(scene.gluons)

\* the subshells in the order 1s, 2s, 2p, 3s, 3p, 4s, 3d, 4p, 5s, 4d, 5p, 6s,
\* 4f, 5d, 6p, 7s, 5f, 6d, as <<n, l>>
Aufbau ==
    << <<1, 0>>, <<2, 0>>, <<2, 1>>, <<3, 0>>, <<3, 1>>, <<4, 0>>, <<3, 2>>,
       <<4, 1>>, <<5, 0>>, <<4, 2>>, <<5, 1>>, <<6, 0>>, <<4, 3>>, <<5, 2>>,
       <<6, 1>>, <<7, 0>>, <<5, 3>>, <<6, 2>> >>

\* the place in Aufbau of the subshell of an orbital entry
Rank(e) == CHOOSE r \in 1..Len(Aufbau) : Aufbau[r] = <<e.n, e.l>>

\* the entries of configs in the subshell of rank r
InSubshell(configs, r) ==
    { i \in 1..Len(configs) : <<configs[i].n, configs[i].l>> = Aufbau[r] }

\* C30: for an electron count n in 1..112 getElectronConfiguration(n) is a
\* list of orbital entries of 1 or 2 electrons that sum to n, filled in the
\* order 1s, 2s, 2p, 3s, 3p, 4s, 3d, 4p, 5s, 4d, 5p, 6s, 4f, 5d, 6p, 7s, 5f,
\* 6d, a later orbital being non-empty only if every earlier one is full; and
\* setupElectronOrbitals creates exactly atomicNumber electrons.
C30_ElectronConfiguration ==
    app = "Simulation3D" =>
      LET configs == scene.orbitalMeshes
          n == scene.atomicNumber
      IN  /\ \A i \in 1..Len(configs) :
               /\ configs[i].electrons \in {1, 2}
               /\ \E r \in 1..Len(Aufbau) : Aufbau[r] = <<configs[i].n, configs[i].l>>
               /\ i < Len(configs) =>
                    /\ configs[i].electrons = 2
                    /\ Rank(configs[i]) <= Rank(configs[i + 1])
          /\ SumOver(1..Len(configs), [i \in 1..Len(configs) |-> configs[i].electrons]) = n
          /\ \A r \in 1..Len(Aufbau) :
               /\ Cardinality(InSubshell(configs, r)) <= 2 * Aufbau[r][2] + 1
               /\ (r > 1 /\ InSubshell(configs, r) # {}) =>
                    Cardinality(InSubshell(configs, r - 1)) = 2 * Aufbau[r - 1][2] + 1
          /\ Len(scene.electrons) = n
          /\ \A i \in 1..Len(configs) :
               Cardinality({ e \in 1..Len(scene.electrons) : scene.electrons[e] = i })
                 = configs[i].electrons

\* setElement has built gold: 79 electrons, the last orbital, a 5d one, half
\* full after the 4f subshell
C30_Witness ==
    /\ app = "Simulation3D"
    /\ resets > 0
    /\ scene.atomicNumber = 79
    /\ scene.orbitalMeshes[Len(scene.orbitalMeshes)].electrons = 1
    /\ scene.orbitalMeshes[Len(scene.orbitalMeshes)].n = 5
    /\ scene.orbitalMeshes[Len(scene.orbitalMeshes)].l = 2
    /\ \E i \in 1..Len(scene.orbitalMeshes) : scene.orbitalMeshes[i].l = 3

(***************************************************************************)
(* Momentum.                                                               *)
(***************************************************************************)
\* timestamps of a tick whose lastTime is 0: dt is 16 ms, 100 ms, 1 s (capped
\* to 100 ms) and -16 ms
TickTimes == {16, 100, 1000, -16}

\* a running Simulation holding the particles of the state, with lastTime 0
Running == [isRunning |-> TRUE, lastTime |-> 0, particles |-> particles,
            frameTimes |-> <<>>, fps |-> 0, pending |-> 0]

\* the particles after one tick at time t
Ticked(t) == Tick(Running, t, coulombConstant, width, height).particles

\* the particles after the force pass and the integration of that tick
BeforeWalls(t) == IntegratePass(ForcePass(particles), ClampDt(t))

\* handleBoundaries leaves the particle at place i as the integration put it
Uncorrected(t, i) == BoundaryPass(BeforeWalls(t))[i] = BeforeWalls(t)[i]

\* the total momentum of ps, as <<x, y>>
Momentum(ps) ==
    << SumOver(1..Len(ps), [i \in 1..Len(ps) |-> Mass * ps[i].vx]),
       SumOver(1..Len(ps), [i \in 1..Len(ps) |-> Mass * ps[i].vy]) >>

====
